---- MODULE Spec2Model ----
(***************************************************************************)
(* Model of remote.py, the Terminator "Remote" plugin: the RemoteSession   *)
(* classifier family (SSHSession, ContainerSession), the process scanner   *)
(* (_has_remote_session) and the clone orchestrator (callback,             *)
(* _menu_item_activated, _poll_new_terminals, _split_axis).                *)
(*                                                                         *)
(* Python strings are sequences of one-character strings, so that          *)
(* startswith, split, basename and join are computed, not assumed.         *)
(* A command line (psutil cmdline()) is a sequence of such strings.        *)
(***************************************************************************)
EXTENDS Integers, Sequences, FiniteSets, TLC

VARIABLES
    terminals,      \* terminator.terminals: the pane identities the host knows
    nextPane,       \* host: next fresh pane identity (uuids are never reused)
    alive,          \* process table: pids of the live processes
    clock,          \* time.time(), in clock units, counted from the time
                    \* the last request was accepted: only its distance
                    \* to start_time is read
    idle_src,       \* GLib main loop: start_time of the scheduled idle
                    \* source, NoSource without one
    timeout_id,     \* Remote.timeout_id
    peers,          \* Remote.peers
    remote_proc,    \* Remote.remote_proc (a pid, NoProc for None)
    remote_type,    \* Remote.remote_type (index in remote_session_types,
                    \* 0 for None)
    config,         \* Remote.config
    menu,           \* the context menu callback() built, while on screen
    last,           \* what the handler that ran last did: its calls on the host
    nFed,           \* feed_child calls made by poll ticks since the last
                    \* request was accepted
    tree,           \* process table: per pane, its descendants in
                    \* enumeration order
    arg,            \* SpecParse: the process a variant's method is given
    out             \* SpecParse: what the method called last returned

vars == <<terminals, nextPane, alive, clock, idle_src, timeout_id, peers,
          remote_proc, remote_type, config, menu, last,
          nFed, tree, arg, out>>

(***************************************************************************)
(* Python values                                                           *)
(***************************************************************************)
\* Python's None where a string is expected: no string equals it, since every
\* element of a string is one character long.
None == <<"None">>

\* The result of a call: a value, or the exception that escapes it.
Ret(v) == [exc |-> "none", val |-> v]
Raise(e) == [exc |-> e, val |-> None]

Min(S) == CHOOSE x \in S : \A y \in S : x <= y

\* a local name: Body(v), with v evaluated once
With(v, Body(_)) == Body(v)

\* str.startswith
StartsWith(s, p) == Len(p) <= Len(s) /\ SubSeq(s, 1, Len(p)) = p

\* c in s, for a character c
HasChar(s, c) == \E i \in 1..Len(s) : s[i] = c

\* s.find(c) + 1: the position of the first c, 0 when there is none
Find(s, c) == IF HasChar(s, c) THEN Min({i \in 1..Len(s) : s[i] = c}) ELSE 0

\* s[i:] for the 1-based position i
From(s, i) == SubSeq(s, i, Len(s))

\* tok in list
InList(tok, list) == \E i \in 1..Len(list) : list[i] = tok

\* list.index(tok) + 1, 0 standing for the ValueError
Index(list, tok) ==
    IF InList(tok, list) THEN Min({i \in 1..Len(list) : list[i] = tok}) ELSE 0

\* sub in s, for strings (substring test)
HasSub(s, sub) ==
    \E i \in 1..(Len(s) - Len(sub) + 1) : SubSeq(s, i, i + Len(sub) - 1) = sub

\* os.path.basename: what follows the last "/"
basename(path) ==
    LET slashes == {i \in 1..Len(path) : path[i] = "/"}
    IN  IF slashes = {} THEN path
        ELSE From(path, (CHOOSE i \in slashes : \A j \in slashes : j <= i) + 1)

\* sep.join(list)
RECURSIVE join(_, _)
join(sep, list) ==
    IF list = <<>> THEN <<>>
    ELSE IF Len(list) = 1 THEN list[1]
    ELSE list[1] \o sep \o join(sep, Tail(list))

\* os.linesep on the platforms Terminator runs on
linesep == <<"\n">>

(***************************************************************************)
(* String literals of the source                                           *)
(***************************************************************************)
s_ssh == <<"s","s","h">>
s_docker == <<"d","o","c","k","e","r">>
s_podman == <<"p","o","d","m","a","n">>
s_run == <<"r","u","n">>
s_exec == <<"e","x","e","c">>
s_attach == <<"a","t","t","a","c","h">>
s_name == <<"-","-","n","a","m","e">>
s_it == <<"-","i","t">>
s_sh == <<"s","h">>
s_profile == <<"p","r","o","f","i","l","e">>
s_ssh_default_profile ==
    <<"s","s","h","_","d","e","f","a","u","l","t","_","p","r","o","f","i","l","e">>
s_container_default_profile ==
    <<"c","o","n","t","a","i","n","e","r","_","d","e","f","a","u","l","t","_",
      "p","r","o","f","i","l","e">>
s_auto_clone == <<"a","u","t","o","_","c","l","o","n","e">>

(***************************************************************************)
(* psutil.Process: a process is [gone, name, exe, cmdline]; every read of  *)
(* a process that has exited raises psutil.NoSuchProcess.                  *)
(***************************************************************************)

\* matching on the reported name alone
matches_by_reported_name(exe, proc) ==
    IF proc.gone THEN Raise("NoSuchProcess") ELSE Ret(exe = proc.name)

\* RemoteSession.matches_by_name
matches_by_name(exe, proc) ==
    IF proc.gone THEN Raise("NoSuchProcess")
    ELSE IF exe = proc.name THEN Ret(TRUE)
    ELSE IF proc.exe # <<>> /\ exe = basename(proc.exe) THEN Ret(TRUE)
    ELSE IF proc.cmdline # <<>> /\ exe = proc.cmdline[1] THEN Ret(TRUE)
    ELSE Ret(FALSE)

(***************************************************************************)
(* getopt.getopt(args, shortOpts), as SSHSession.GetHost calls it          *)
(***************************************************************************)
shortOpts ==
    <<"1","2","4","6","a","b",":","c",":","e",":","f","g","i",":","k","l",":",
      "m",":","n","o",":","p",":","q","s","t","v","x",
      "A","B",":","C","D",":","E",":","F",":","G","I",":","J",":","K","L",":",
      "M","N","O",":","P",":","Q",":","R",":","S",":","T","V","w",":","W",":",
      "X","Y","y">>

\* getopt.short_has_arg
short_has_arg(opt) ==
    LET hits == {i \in 1..Len(shortOpts) : opt = shortOpts[i] /\ shortOpts[i] # ":"}
    IN  IF hits = {} THEN Raise("GetoptError")
        ELSE Ret(Min(hits) < Len(shortOpts) /\ shortOpts[Min(hits) + 1] = ":")

\* getopt.do_shorts: the arguments left after one "-xyz" cluster
RECURSIVE do_shorts(_, _)
do_shorts(optstring, args) ==
    IF optstring = <<>> THEN Ret(args)
    ELSE With(short_has_arg(Head(optstring)), LAMBDA h :
             IF h.exc # "none" THEN Raise(h.exc)
             ELSE IF h.val
             THEN IF Tail(optstring) = <<>>
                  THEN IF args = <<>> THEN Raise("GetoptError") ELSE Ret(Tail(args))
                  ELSE Ret(args)
             ELSE do_shorts(Tail(optstring), args))

\* getopt.getopt with no long options: the positional arguments
RECURSIVE getopt(_)
getopt(args) ==
    IF args # <<>> /\ StartsWith(args[1], <<"-">>) /\ args[1] # <<"-">>
    THEN IF args[1] = <<"-","-">> THEN Ret(Tail(args))
         ELSE IF StartsWith(args[1], <<"-","-">>) THEN Raise("GetoptError")
         ELSE With(do_shorts(Tail(args[1]), Tail(args)), LAMBDA r :
                  IF r.exc # "none" THEN r ELSE getopt(r.val))
    ELSE Ret(args)

\* SSHSession.GetHost.extractHost: target.split('@')[1]
extractHost(target) ==
    IF HasChar(target, "@")
    THEN With(From(target, Find(target, "@") + 1), LAMBDA rest :
             IF HasChar(rest, "@") THEN SubSeq(rest, 1, Find(rest, "@") - 1) ELSE rest)
    ELSE target

\* SSHSession.IsType
SSH_IsType(proc) == matches_by_name(s_ssh, proc)

\* SSHSession.GetHost: every Exception is caught
SSH_GetHost(proc) ==
    IF proc.gone THEN Ret(None)
    ELSE With(getopt(IF proc.cmdline = <<>> THEN <<>> ELSE Tail(proc.cmdline)),
              LAMBDA args :
                  IF args.exc # "none" \/ args.val = <<>> THEN Ret(None)
                  ELSE Ret(extractHost(args.val[1])))

\* SSHSession.Clone
SSH_Clone(proc) ==
    IF proc.gone THEN Raise("NoSuchProcess") ELSE Ret(proc.cmdline)

(***************************************************************************)
(* argparse.ArgumentParser.parse_known_args, as _get_host_exec and         *)
(* _get_host_attach call it: a parser is its add_argument calls, flags     *)
(* (no value), values (one value), whether the optional second positional  *)
(* "command" exists; "-h/--help" is added by ArgumentParser().  A parse    *)
(* error and "-h" both end in sys.exit, that is SystemExit.  Argument      *)
(* vectors with a "--" token are outside this model.                       *)
(***************************************************************************)
help_flags ==
    {<<"-","h">>,
     <<"-","-","h","e","l","p">>}

\* the parser _get_host_exec builds
exec_parser ==
    [flags |->
        {<<"-","d">>,
         <<"-","-","d","e","t","a","c","h">>,
         <<"-","i">>,
         <<"-","-","i","n","t","e","r","a","c","t","i","v","e">>,
         <<"-","l">>,
         <<"-","-","l","a","t","e","s","t">>,
         <<"-","t">>,
         <<"-","-","t","t","y">>},
     values |->
        {<<"-","-","d","e","t","a","c","h","-","k","e","y","s">>,
         <<"-","e">>,
         <<"-","-","e","n","v">>,
         <<"-","-","e","n","v","-","f","i","l","e">>,
         <<"-","-","p","r","i","v","i","l","e","g","e","d">>,
         <<"-","-","p","r","e","s","e","r","v","e","-","f","d","s">>,
         <<"-","u">>,
         <<"-","-","u","s","e","r">>,
         <<"-","w">>,
         <<"-","-","w","o","r","k","d","i","r">>},
     command |-> TRUE]

\* the parser _get_host_attach builds
attach_parser ==
    [flags |->
        {<<"-","l">>,
         <<"-","-","l","a","t","e","s","t">>,
         <<"-","-","n","o","-","s","t","d","i","n">>,
         <<"-","-","s","i","g","-","p","r","o","x","y">>},
     values |->
        {<<"-","-","d","e","t","a","c","h","-","k","e","y","s">>},
     command |-> FALSE]

option_strings(P) == P.flags \cup P.values \cup help_flags

Digits == {"0","1","2","3","4","5","6","7","8","9"}
AllDigits(s) == \A i \in 1..Len(s) : s[i] \in Digits

\* argparse's _negative_number_matcher: '^-\d+$|^-\d*\.\d+$'
negative_number(tok) ==
    /\ tok # <<>> /\ tok[1] = "-"
    /\ LET r == Tail(tok)
       IN  \/ r # <<>> /\ AllDigits(r)
           \/ \E k \in 1..Len(r) :
                /\ r[k] = "."
                /\ k < Len(r)
                /\ AllDigits(SubSeq(r, 1, k - 1))
                /\ AllDigits(From(r, k + 1))

\* ArgumentParser._get_option_tuples: the (option string, explicit argument)
\* readings of an argument that is no option string itself
_get_option_tuples(P, tok) ==
    With(option_strings(P), LAMBDA known :
    With(Find(tok, "="), LAMBDA eq :
        IF tok[2] = "-"
        THEN {[opt |-> o,
               explicit |-> IF eq > 0 THEN From(tok, eq + 1) ELSE None] :
                  o \in {x \in known :
                     StartsWith(x, IF eq > 0 THEN SubSeq(tok, 1, eq - 1) ELSE tok)}}
        ELSE {[opt |-> o, explicit |-> From(tok, 3)] :
                  o \in {x \in known : x = SubSeq(tok, 1, 2)}}
             \cup
             {[opt |-> o, explicit |-> None] :
                  o \in {x \in known : x # SubSeq(tok, 1, 2) /\ StartsWith(x, tok)}}))

\* ArgumentParser._parse_optional: "A" a positional, "O" an option (opt is
\* None for one the parser does not know), "error" an ambiguous abbreviation
Parsed(kind, opt, explicit) == [kind |-> kind, opt |-> opt, explicit |-> explicit]

_parse_optional(P, tok) ==
    With(option_strings(P), LAMBDA known :
    With(Find(tok, "="), LAMBDA eq :
        IF tok = <<>> THEN Parsed("A", None, None)
        ELSE IF tok[1] # "-" THEN Parsed("A", None, None)
        ELSE IF tok \in known THEN Parsed("O", tok, None)
        ELSE IF Len(tok) = 1 THEN Parsed("A", None, None)
        ELSE IF eq > 0 /\ SubSeq(tok, 1, eq - 1) \in known
             THEN Parsed("O", SubSeq(tok, 1, eq - 1), From(tok, eq + 1))
        ELSE With(_get_option_tuples(P, tok), LAMBDA tuples :
             IF Cardinality(tuples) > 1 THEN Parsed("error", None, None)
             ELSE IF Cardinality(tuples) = 1
                  THEN With(CHOOSE t \in tuples : TRUE, LAMBDA t :
                           Parsed("O", t.opt, t.explicit))
             ELSE IF negative_number(tok) THEN Parsed("A", None, None)
             ELSE IF HasChar(tok, " ") THEN Parsed("A", None, None)
             ELSE Parsed("O", None, None))))

\* consume_optional of _parse_known_args: the index after the option at
\* start and its value; help records that -h was among the options taken
RECURSIVE consume_optional(_, _, _, _, _, _)
consume_optional(P, pat, start, opt, explicit, help) ==
    With(help \/ opt \in help_flags, LAMBDA exits :
        IF opt = None THEN Ret(start + 1)
        ELSE IF explicit # None
        THEN IF opt \notin P.values /\ opt[2] # "-" /\ explicit # <<>>
             THEN IF <<"-", explicit[1]>> \in option_strings(P)
                  THEN consume_optional(P, pat, start, <<"-", explicit[1]>>,
                           IF Len(explicit) > 1 THEN Tail(explicit) ELSE None,
                           exits)
                  ELSE Raise("SystemExit")
             ELSE IF opt \in P.values /\ ~exits THEN Ret(start + 1)
             ELSE Raise("SystemExit")
        ELSE IF opt \in P.values
             THEN IF start + 1 <= Len(pat) /\ pat[start + 1].kind = "A" /\ ~exits
                  THEN Ret(start + 2)
                  ELSE Raise("SystemExit")
        ELSE IF exits THEN Raise("SystemExit")
        ELSE Ret(start + 1))

\* the main loop of _parse_known_args: cont is the value given to the
\* positional "container", None while the positionals are not consumed
RECURSIVE parse_loop(_, _, _, _, _)
parse_loop(P, args, pat, start, cont) ==
    With({i \in 1..Len(pat) : pat[i].kind = "O" /\ i >= start}, LAMBDA ahead :
        IF ahead # {}
        THEN IF start # Min(ahead) /\ cont = None
             THEN parse_loop(P, args, pat,
                      IF P.command /\ start + 1 <= Len(pat)
                                   /\ pat[start + 1].kind = "A"
                      THEN start + 2 ELSE start + 1,
                      args[start])
             ELSE With(Min(ahead), LAMBDA at :
                  With(consume_optional(P, pat, at, pat[at].opt,
                                        pat[at].explicit, FALSE), LAMBDA stop :
                      IF stop.exc # "none" THEN Raise(stop.exc)
                      ELSE parse_loop(P, args, pat, stop.val, cont)))
        ELSE IF cont # None THEN Ret(cont)
        ELSE IF start <= Len(args) THEN Ret(args[start])
        ELSE Raise("SystemExit"))

\* parser.parse_known_args(args)[0].container
parse_known_args(P, args) ==
    With([i \in 1..Len(args) |-> _parse_optional(P, args[i])], LAMBDA pat :
        IF \E i \in 1..Len(pat) : pat[i].kind = "error"
        THEN Raise("SystemExit")
        ELSE parse_loop(P, args, pat, 1, None))

(***************************************************************************)
(* ContainerSession                                                        *)
(***************************************************************************)
interactiveCmds == {s_run, s_exec, s_attach}

\* the last interactive subcommand
_get_command_rightmost(proc) ==
    IF proc.gone THEN Raise("NoSuchProcess")
    ELSE With({i \in 1..Len(proc.cmdline) : proc.cmdline[i] \in interactiveCmds},
              LAMBDA hits :
                  IF hits = {} THEN Ret(None)
                  ELSE Ret(proc.cmdline[CHOOSE i \in hits : \A j \in hits : j <= i]))

\* ContainerSession._get_command: the first interactive subcommand
_get_command(proc) ==
    IF proc.gone THEN Raise("NoSuchProcess")
    ELSE With({i \in 1..Len(proc.cmdline) : proc.cmdline[i] \in interactiveCmds},
              LAMBDA hits :
                  IF hits = {} THEN Ret(None) ELSE Ret(proc.cmdline[Min(hits)]))

\* ContainerSession.IsType
Container_IsType(exe, proc) ==
    With(matches_by_name(exe, proc), LAMBDA m :
        IF m.exc # "none" THEN m
        ELSE IF ~m.val THEN Ret(FALSE)
        ELSE With(_get_command(proc), LAMBDA cmd :
                 IF cmd.exc # "none" THEN Raise(cmd.exc)
                 ELSE Ret(cmd.val # None)))

\* _get_host_run finding no name
_get_host_run_nameless(proc) == Ret(None)

\* ContainerSession._get_host_run: every Exception is caught
_get_host_run(proc) ==
    With(Index(proc.cmdline, s_name), LAMBDA idxOfName :
        IF proc.gone \/ idxOfName = 0 \/ idxOfName + 1 > Len(proc.cmdline)
        THEN Ret(None)
        ELSE Ret(proc.cmdline[idxOfName + 1]))

\* ContainerSession._get_host_exec
_get_host_exec(proc) ==
    IF proc.gone THEN Raise("NoSuchProcess")
    ELSE IF Index(proc.cmdline, s_exec) = 0 THEN Raise("ValueError")
    ELSE parse_known_args(exec_parser,
                          From(proc.cmdline, Index(proc.cmdline, s_exec) + 1))

\* ContainerSession._get_host_attach
_get_host_attach(proc) ==
    IF proc.gone THEN Raise("NoSuchProcess")
    ELSE IF Index(proc.cmdline, s_attach) = 0 THEN Raise("ValueError")
    ELSE parse_known_args(attach_parser,
                          From(proc.cmdline, Index(proc.cmdline, s_attach) + 1))

\* ContainerSession.GetHost: "except Exception" catches what derives from
\* Exception; SystemExit does not, and _get_command runs outside the try
Container_GetHost(proc) ==
    With(_get_command(proc), LAMBDA cmd :
        IF cmd.exc # "none" THEN Raise(cmd.exc)
        ELSE IF cmd.val = None THEN Ret(None)
        ELSE With(IF cmd.val = s_run THEN _get_host_run(proc)
                  ELSE IF cmd.val = s_exec THEN _get_host_exec(proc)
                  ELSE _get_host_attach(proc),
                  LAMBDA host :
                      IF host.exc = "SystemExit" THEN Raise("SystemExit")
                      ELSE IF host.exc # "none" THEN Ret(None)
                      ELSE host))

\* ContainerSession.Clone
Container_Clone(exe, proc) ==
    With(_get_command(proc), LAMBDA cmd :
        IF cmd.exc # "none" THEN Raise(cmd.exc)
        ELSE IF cmd.val = None THEN Ret(proc.cmdline)
        ELSE IF cmd.val \in {s_exec, s_attach} THEN Ret(proc.cmdline)
        ELSE With(Container_GetHost(proc), LAMBDA host :
                 IF host.exc # "none" THEN Raise(host.exc)
                 ELSE IF host.val = None \/ host.val = <<>> THEN Ret(proc.cmdline)
                 ELSE Ret(<<exe, s_exec, s_it, host.val, s_sh>>)))

(***************************************************************************)
(* Remote: the registered variants and the dispatch on them                *)
(***************************************************************************)
remote_session_types ==
    <<[cls |-> "SSHSession", exe |-> s_ssh],
      [cls |-> "ContainerSession", exe |-> s_docker],
      [cls |-> "ContainerSession", exe |-> s_podman]>>

IsType(t, proc) ==
    IF remote_session_types[t].cls = "SSHSession" THEN SSH_IsType(proc)
    ELSE Container_IsType(remote_session_types[t].exe, proc)

GetHost(t, proc) ==
    IF remote_session_types[t].cls = "SSHSession" THEN SSH_GetHost(proc)
    ELSE Container_GetHost(proc)

Clone(t, proc) ==
    IF remote_session_types[t].cls = "SSHSession" THEN SSH_Clone(proc)
    ELSE Container_Clone(remote_session_types[t].exe, proc)

(***************************************************************************)
(* The processes the panes may run (psutil's view of them)                 *)
(***************************************************************************)
Catalog ==
    <<  \* 1: bash
        [name |-> <<"b","a","s","h">>,
         exe |-> <<"/","b","i","n","/","b","a","s","h">>,
         cmdline |-> << <<"b","a","s","h">> >>],
        \* 2: ssh -p 22 u@h
        [name |-> s_ssh,
         exe |-> <<"/","b","i","n","/","s","s","h">>,
         cmdline |-> <<s_ssh, <<"-","p">>, <<"2","2">>, <<"u","@","h">> >>],
        \* 3: docker run --name c img
        [name |-> s_docker,
         exe |-> <<"/","b","i","n","/","d","o","c","k","e","r">>,
         cmdline |-> <<s_docker, s_run, s_name, <<"c">>, <<"i","m","g">> >>],
        \* 4: docker attach --sig-proxy=false c
        [name |-> s_docker,
         exe |-> <<"/","b","i","n","/","d","o","c","k","e","r">>,
         cmdline |-> <<s_docker, s_attach,
                       <<"-","-","s","i","g","-","p","r","o","x","y","=",
                         "f","a","l","s","e">>, <<"c">> >>],
        \* 5: podman exec -it c sh
        [name |-> s_podman,
         exe |-> <<"/","b","i","n","/","p","o","d","m","a","n">>,
         cmdline |-> <<s_podman, s_exec, s_it, <<"c">>, s_sh>>],
        \* 6: docker run -it img, docker being a link to podman
        [name |-> s_docker,
         exe |-> <<"/","b","i","n","/","p","o","d","m","a","n">>,
         cmdline |-> <<s_docker, s_run, s_it, <<"i","m","g">> >>],
        \* 7: docker ps
        [name |-> s_docker,
         exe |-> <<"/","b","i","n","/","d","o","c","k","e","r">>,
         cmdline |-> <<s_docker, <<"p","s">> >>],
        \* 8: a process named ssh whose argv[0] is docker
        [name |-> s_ssh,
         exe |-> <<>>,
         cmdline |-> <<s_docker, s_exec, <<"c">> >>],
        \* 9: ssh auto_clone, a host named as a setting of the plugin
        [name |-> s_ssh,
         exe |-> <<"/","b","i","n","/","s","s","h">>,
         cmdline |-> <<s_ssh, s_auto_clone>>] >>

\* a process is <<pane, position in tree[pane]>>; NoProc is Python's None
NoProc == <<0, 0>>

\* what psutil reads of process pr when the live processes are live
Proc(pr, live) ==
    With(Catalog[tree[pr[1]][pr[2]]], LAMBDA p :
        [gone |-> pr \notin live, name |-> p.name, exe |-> p.exe,
         cmdline |-> p.cmdline])

\* psutil.Process(pid).children(recursive=True): the live descendants of
\* the pane's shell, in enumeration order
children(pane, live) ==
    SelectSeq([i \in 1..Len(tree[pane]) |-> <<pane, i>>], LAMBDA pr : pr \in live)

NoMatch == [proc |-> NoProc, type |-> 0]

\* the inner loop of _has_remote_session: the first variant, from t on,
\* that the process is, 0 when it is none of them
RECURSIVE first_type(_, _)
first_type(proc, t) ==
    IF t > Len(remote_session_types) THEN Ret(0)
    ELSE With(IsType(t, proc), LAMBDA is :
             IF is.exc # "none" THEN Raise(is.exc)
             ELSE IF is.val THEN Ret(t)
             ELSE first_type(proc, t + 1))

\* the loop run from the last child to the first
RECURSIVE scan_children_backwards(_, _)
scan_children_backwards(list, live) ==
    IF list = <<>> THEN Ret(NoMatch)
    ELSE With(first_type(Proc(list[Len(list)], live), 1), LAMBDA t :
             IF t.exc # "none" THEN Raise(t.exc)
             ELSE IF t.val # 0
                  THEN Ret([proc |-> list[Len(list)], type |-> t.val])
             ELSE scan_children_backwards(SubSeq(list, 1, Len(list) - 1), live))

\* the outer loop of _has_remote_session over the children enumerated;
\* live are the processes still there while the loop reads them
RECURSIVE scan_children(_, _)
scan_children(list, live) ==
    IF list = <<>> THEN Ret(NoMatch)
    ELSE With(first_type(Proc(Head(list), live), 1), LAMBDA t :
             IF t.exc # "none" THEN Raise(t.exc)
             ELSE IF t.val # 0 THEN Ret([proc |-> Head(list), type |-> t.val])
             ELSE scan_children(Tail(list), live))

\* Remote._has_remote_session(terminal.pid): shell tells whether the pane's
\* shell still exists (psutil.Process(pid) raises when it does not), vanished
\* is a child that exits after children() listed it
_has_remote_session(pane, shell, vanished) ==
    IF ~shell THEN Raise("NoSuchProcess")
    ELSE scan_children(children(pane, alive), alive \ {vanished})

(***************************************************************************)
(* Configuration                                                           *)
(***************************************************************************)
StrV(s) == [kind |-> "str", s |-> s, b |-> FALSE, d |-> <<>>]
BoolV(b) == [kind |-> "bool", s |-> <<>>, b |-> b, d |-> <<>>]
DictV(d) == [kind |-> "dict", s |-> <<>>, b |-> FALSE, d |-> d]

\* str.lower, for the letters of a boolean
lower(s) ==
    [i \in 1..Len(s) |->
        CASE s[i] = "T" -> "t" [] s[i] = "R" -> "r" [] s[i] = "U" -> "u"
          [] s[i] = "E" -> "e" [] s[i] = "F" -> "f" [] s[i] = "A" -> "a"
          [] s[i] = "L" -> "l" [] s[i] = "S" -> "s" [] OTHER -> s[i]]

\* Remote._get_config: the defaults, updated by the user's plugin section,
\* auto_clone made a bool
_get_config(user_config) ==
    With(user_config
            @@ (s_ssh_default_profile :> StrV(<<>>))
            @@ (s_container_default_profile :> StrV(<<>>))
            @@ (s_auto_clone :> StrV(<<"F","a","l","s","e">>)),
         LAMBDA merged :
            (s_auto_clone :>
                BoolV(IF merged[s_auto_clone].kind = "str"
                      THEN lower(merged[s_auto_clone].s) = <<"t","r","u","e">>
                      ELSE FALSE))
            @@ merged)

\* Remote._get_default_profile
_get_default_profile(t) ==
    IF remote_session_types[t].cls = "SSHSession"
    THEN config[s_ssh_default_profile].s
    ELSE config[s_container_default_profile].s

\* the body of Remote._apply_host_settings, on remote_type rt and the
\* process remote_proc reads as: the profile given to terminal.set_profile,
\* <<>> when it is not called
host_settings(rt, proc) ==
    With(_get_default_profile(rt), LAMBDA default :
    With(GetHost(rt, proc), LAMBDA remoteHost :
        IF remoteHost.exc # "none" THEN Raise(remoteHost.exc)
        ELSE IF remoteHost.val = None \/ remoteHost.val = <<>> THEN Ret(default)
        ELSE IF remoteHost.val \notin DOMAIN config THEN Ret(default)
        ELSE With(config[remoteHost.val], LAMBDA hostSettings :
             IF hostSettings.kind = "bool" THEN Raise("TypeError")
             ELSE IF hostSettings.kind = "str"
                  THEN IF HasSub(hostSettings.s, s_profile)
                       THEN Raise("TypeError") ELSE Ret(default)
             ELSE IF s_profile \in DOMAIN hostSettings.d
                  THEN Ret(hostSettings.d[s_profile])
             ELSE Ret(default))))

\* Remote._apply_host_settings, on remote_type rt and remote_proc rp
_apply_host_settings(rt, rp, live) == host_settings(rt, Proc(rp, live))

\* Remote._spawn_remote_session: the text given to vte.feed_child (None when
\* Clone raises before it), then what _apply_host_settings does
_spawn_remote_session(rt, rp, live) ==
    With(Clone(rt, Proc(rp, live)), LAMBDA remote_cmd :
        IF remote_cmd.exc # "none"
        THEN [exc |-> remote_cmd.exc, cmd |-> None, profile |-> <<>>]
        ELSE With(_apply_host_settings(rt, rp, live), LAMBDA applied :
                 [exc |-> applied.exc,
                  cmd |-> join(<<" ">>, remote_cmd.val) \o linesep,
                  profile |-> IF applied.exc = "none" THEN applied.val ELSE <<>>]))

(***************************************************************************)
(* Bounds and the inputs drawn                                             *)
(***************************************************************************)
\* pane identities the host hands out over a run
MaxPanes == 3
\* the polling bound of _poll_new_terminals, in clock units of 0.1 s
PollTimeout == 1

\* descendants of one pane's shell
MaxChildren == 2

Panes == 1..MaxPanes

\* the descendants of the shell of the pane a run starts with, as
\* positions in Catalog
Scenarios ==
    {<<1, 2>>,      \* bash, ssh
     <<3, 5>>,      \* docker run --name, podman exec
     <<4, 2>>}      \* docker attach --sig-proxy=false, ssh

\* the [[Remote]] sections a user may have written
UserConfigs ==
    {<<>>,
     (s_auto_clone :> StrV(<<"T","r","u","e">>))
        @@ (s_ssh_default_profile :> StrV(<<"S">>))
        @@ (<<"h">> :> DictV(s_profile :> <<"H">>))
        @@ (<<"c">> :> DictV(<<>>))}

(***************************************************************************)
(* The orchestrator                                                        *)
(***************************************************************************)
NoSource == -1
\* no context menu open, or one callback added nothing to
NoMenu == [term |-> 0, items |-> <<>>, auto |-> FALSE]

\* APP_VERSION >= '2.1.3': the host has the split-auto signal
has_split_auto == TRUE

\* the signals of the items callback appends
menuitems ==
    (IF has_split_auto THEN <<"split-auto">> ELSE <<>>)
        \o <<"split-horiz", "split-vert">>

\* Remote._get_all_terminals
_get_all_terminals == terminals

Abs(x) == IF x < 0 THEN -x ELSE x

\* the record of what a handler did
\*   term        the pane the handler was called with (0: none)
\*   scan        what _has_remote_session did: "match", "none", "raise"
\*   found       the (process, variant) it returned, NoMatch without one
\*   exc         the exception that left the handler, "none" without one
\*   accepted    _menu_item_activated took the request
\*   emitted     terminal.emit(signal, ...) was called
\*   fedTo, text vte.feed_child(text) on pane fedTo (0: not called)
\*   resolved    the panes _apply_host_settings was called with, in order
\*   profiles    the <<pane, profile>> of the terminal.set_profile calls
\*   items       how many items callback appended to menuitems
\*   rescheduled _poll_new_terminals returned True
Did(op) ==
    [op |-> op, term |-> 0, scan |-> "-", found |-> NoMatch, exc |-> "none",
     accepted |-> FALSE,
     emitted |-> FALSE, fedTo |-> 0, text |-> None, resolved |-> <<>>,
     profiles |-> <<>>, items |-> 0, rescheduled |-> FALSE]

Scanned(ret) ==
    IF ret.exc # "none" THEN "raise"
    ELSE IF ret.val.type = 0 THEN "none" ELSE "match"

Found(ret) == IF ret.exc # "none" THEN NoMatch ELSE ret.val

\* the guard "if not self.timeout_id" read the other way: a clone request
\* is pending
AwaitingNewPane_unguarded == FALSE
AwaitingNewPane == timeout_id # 0

\* "abs(time.time() - start_time) > 0.1": the request has waited too long
timed_out_never == FALSE
timed_out == Abs(clock - idle_src) > PollTimeout

\* a SystemExit that reaches the main loop ends the host process
Running == last.exc # "SystemExit"

\* the children of a pane one of which may exit while the scanner reads them
Vanishing(pane) ==
    {NoProc} \cup {pr \in alive : pr[1] = pane}

\* no process read, no call made
NoInput == [gone |-> FALSE, name |-> <<>>, exe |-> <<>>, cmdline |-> <<>>]
NoOutput == [fn |-> "-", type |-> 0, gone |-> FALSE, ret |-> Ret(None)]

\* the plugin is constructed in a window of one pane, whose shell has one
\* of the lists of descendants; inputs are the processes a variant's
\* methods are called with
Construct(lists, inputs, configs) ==
    /\ terminals = {1}
    /\ nextPane = 2
    /\ tree \in {[p \in Panes |-> IF p = 1 THEN sc ELSE <<>>] : sc \in lists}
    /\ alive = {pr \in Panes \X (1..MaxChildren) : pr[2] <= Len(tree[pr[1]])}
    /\ clock = 0
    /\ idle_src = NoSource
    /\ timeout_id = 0
    /\ peers = {}
    /\ remote_proc = NoProc
    /\ remote_type = 0
    /\ config \in {_get_config(u) : u \in configs}
    /\ menu = NoMenu
    /\ last = Did("init")
    /\ nFed = 0
    /\ arg \in inputs
    /\ out = NoOutput

Boot(lists, inputs) == Construct(lists, inputs, UserConfigs)

Init == Boot(Scenarios, {NoInput})

\* Remote.callback(menuitems, menu, terminal): the context menu of a pane
callback(terminal) ==
    /\ Running
    /\ terminal \in terminals
    /\ \E vanished \in Vanishing(terminal) :
        \E ret \in {_has_remote_session(terminal, TRUE, vanished)} :
        LET found == ret.exc = "none" /\ ret.val.type # 0
            auto == found /\ config[s_auto_clone].b
        IN  /\ alive' = alive \ {vanished}
            /\ menu' = IF found
                       THEN [term |-> terminal, items |-> menuitems, auto |-> auto]
                       ELSE NoMenu
            /\ peers' = IF auto THEN _get_all_terminals ELSE peers
            /\ last' = [Did("callback") EXCEPT
                           !.term = terminal,
                           !.scan = Scanned(ret), !.found = Found(ret),
                           !.exc = ret.exc,
                           !.items = IF found THEN Len(menuitems) ELSE 0]
    /\ UNCHANGED <<terminals, nextPane, clock, idle_src, timeout_id, remote_proc,
                   remote_type, config, nFed, tree, arg, out>>

\* "self.peers = self._get_all_terminals()" of _menu_item_activated, under
\* the two tests before it: the scan matched and no request is pending
first_peer_list_unvalidated(accept) == _get_all_terminals
first_peer_list(accept) == IF accept THEN _get_all_terminals ELSE peers

\* Remote._menu_item_activated(_, (signal, terminal)): a clone item is
\* activated; sync tells whether the host makes the pane while the signal
\* is emitted
_menu_item_activated(signal, terminal) ==
    /\ Running
    /\ menu.term = terminal
    /\ InList(signal, menu.items)
    /\ \E vanished \in Vanishing(terminal), sync \in BOOLEAN :
        \E ret \in {_has_remote_session(terminal, terminal \in terminals, vanished)} :
        \E applied \in {IF ret.exc = "none" /\ ret.val.type # 0 /\ ~AwaitingNewPane
                        THEN _apply_host_settings(ret.val.type, ret.val.proc,
                                                  alive \ {vanished})
                        ELSE Ret(<<>>)} :
        LET live == alive \ {vanished}
            found == ret.exc = "none" /\ ret.val.type # 0
            accept == found /\ ~AwaitingNewPane
            emitted == accept /\ applied.exc = "none"
            created == emitted /\ sync /\ nextPane <= MaxPanes
        IN  /\ alive' = live
            /\ menu' = NoMenu
            /\ peers' = first_peer_list(accept)
            /\ IF accept
               THEN /\ remote_proc' = ret.val.proc
                    /\ remote_type' = ret.val.type
                    /\ timeout_id' = 1
                    /\ clock' = 0
                    /\ idle_src' = clock'
                    /\ nFed' = 0
               ELSE UNCHANGED <<remote_proc, remote_type, timeout_id, idle_src,
                                clock, nFed>>
            /\ terminals' = IF created THEN terminals \cup {nextPane} ELSE terminals
            /\ nextPane' = IF created THEN nextPane + 1 ELSE nextPane
            /\ last' = [Did("activate") EXCEPT
                           !.term = terminal,
                           !.scan = Scanned(ret), !.found = Found(ret),
                           !.exc = IF ret.exc # "none" THEN ret.exc
                                   ELSE IF accept THEN applied.exc ELSE "none",
                           !.accepted = accept,
                           !.emitted = emitted,
                           !.resolved = IF accept THEN <<terminal>> ELSE <<>>,
                           !.profiles = IF emitted /\ applied.val # <<>>
                                        THEN <<<<terminal, applied.val>>>> ELSE <<>>]
    /\ UNCHANGED <<config, tree, arg, out>>

\* every pane taken as new
any_children(currPeers) == currPeers
\* "newPeers = [ x for x in currPeers if x not in self.peers ]" of
\* _poll_new_terminals and _split_axis: the added children
added_children(currPeers) == currPeers \ peers

\* "if len(newPeers) != 1" taken as the test that gives up
not_one_child(newPeers) == Cardinality(newPeers) # 1
\* "if not len(newPeers)" of _poll_new_terminals: the tick gives up
removed_children(newPeers) == newPeers = {}

\* Remote._poll_new_terminals(start_time): one run of the idle source; a
\* run that returns False, or that an exception leaves, removes the source
_poll_new_terminals ==
    /\ Running
    /\ idle_src # NoSource
    /\ LET currPeers == _get_all_terminals
           newPeers == added_children(currPeers)
       IN  IF Cardinality(currPeers) # Cardinality(peers)
           THEN IF removed_children(newPeers)
                THEN /\ idle_src' = NoSource
                     /\ last' = Did("poll")
                     /\ UNCHANGED <<timeout_id, nFed>>
                ELSE \E newTermUUID \in newPeers :
                     \E sp \in {_spawn_remote_session(remote_type, remote_proc, alive)} :
                     /\ idle_src' = NoSource
                     /\ timeout_id' = IF sp.exc = "none" THEN 0 ELSE timeout_id
                     /\ nFed' = IF sp.cmd # None THEN nFed + 1 ELSE nFed
                     /\ last' = [Did("poll") EXCEPT
                                    !.exc = sp.exc,
                                    !.fedTo = IF sp.cmd # None THEN newTermUUID ELSE 0,
                                    !.text = sp.cmd,
                                    !.resolved = IF sp.cmd # None
                                                 THEN <<newTermUUID>> ELSE <<>>,
                                    !.profiles = IF sp.profile # <<>>
                                                 THEN <<<<newTermUUID, sp.profile>>>>
                                                 ELSE <<>>]
           ELSE IF timed_out
           THEN /\ idle_src' = NoSource
                /\ timeout_id' = 0
                /\ last' = Did("poll")
                /\ UNCHANGED nFed
           ELSE /\ last' = [Did("poll") EXCEPT !.rescheduled = TRUE]
                /\ UNCHANGED <<idle_src, timeout_id, nFed>>
    /\ UNCHANGED <<terminals, nextPane, alive, clock, peers, remote_proc,
                   remote_type, config, menu, tree, arg, out>>

\* a host Split item is activated on a menu callback connected _split_axis
\* to: the host's handler runs first and makes the pane (made), then
\* Remote._split_axis(widget, terminal)
_split_axis(terminal) ==
    /\ Running
    /\ menu.term = terminal
    /\ menu.auto
    /\ terminal \in terminals
    /\ \E vanished \in Vanishing(terminal), made \in BOOLEAN :
        \E ret \in {_has_remote_session(terminal, TRUE, vanished)} :
        \E applied \in {IF ret.exc = "none" /\ ret.val.type # 0
                        THEN _apply_host_settings(ret.val.type, ret.val.proc,
                                                  alive \ {vanished})
                        ELSE Ret(<<>>)} :
        LET created == made /\ nextPane <= MaxPanes
            currPeers == IF created THEN terminals \cup {nextPane} ELSE terminals
            live == alive \ {vanished}
            found == ret.exc = "none" /\ ret.val.type # 0
            newPeers == added_children(currPeers)
            spawn == /\ found
                     /\ applied.exc = "none"
                     /\ Cardinality(currPeers) # Cardinality(peers)
                     /\ newPeers # {}
        IN  \E newTermUUID \in IF spawn THEN newPeers ELSE {0} :
            \E sp \in {IF spawn
                       THEN _spawn_remote_session(ret.val.type, ret.val.proc, live)
                       ELSE [exc |-> "none", cmd |-> None, profile |-> <<>>]} :
            LET fedNow == spawn /\ sp.cmd # None
            IN  /\ terminals' = currPeers
                /\ nextPane' = IF created THEN nextPane + 1 ELSE nextPane
                /\ alive' = live
                /\ menu' = NoMenu
                /\ remote_proc' = IF found THEN ret.val.proc ELSE remote_proc
                /\ remote_type' = IF found THEN ret.val.type ELSE remote_type
                /\ last' = [Did("split_axis") EXCEPT
                               !.term = terminal,
                               !.scan = Scanned(ret), !.found = Found(ret),
                               !.exc = IF ret.exc # "none" THEN ret.exc
                                       ELSE IF ~found THEN "none"
                                       ELSE IF applied.exc # "none" THEN applied.exc
                                       ELSE IF spawn THEN sp.exc ELSE "none",
                               !.fedTo = IF fedNow THEN newTermUUID ELSE 0,
                               !.text = IF fedNow THEN sp.cmd ELSE None,
                               !.resolved =
                                   (IF found THEN <<terminal>> ELSE <<>>)
                                   \o (IF fedNow THEN <<newTermUUID>> ELSE <<>>),
                               !.profiles =
                                   (IF found /\ applied.exc = "none"
                                             /\ applied.val # <<>>
                                    THEN <<<<terminal, applied.val>>>> ELSE <<>>)
                                   \o (IF spawn /\ sp.profile # <<>>
                                       THEN <<<<newTermUUID, sp.profile>>>>
                                       ELSE <<>>)]
    /\ UNCHANGED <<clock, idle_src, timeout_id, peers, config, nFed, tree, arg, out>>

(***************************************************************************)
(* The host, the user and the operating system                             *)
(***************************************************************************)
\* a host Split item is activated on a menu without the plugin's handler
HostSplit ==
    /\ Running
    /\ menu.term \in terminals
    /\ ~menu.auto
    /\ nextPane <= MaxPanes
    /\ terminals' = terminals \cup {nextPane}
    /\ nextPane' = nextPane + 1
    /\ menu' = NoMenu
    /\ last' = Did("env")
    /\ UNCHANGED <<alive, clock, idle_src, timeout_id, peers, remote_proc,
                   remote_type, config, nFed, tree, arg, out>>

\* the host registers a pane: a requested split completes, or the user
\* opens a tab
NewPane ==
    /\ Running
    /\ nextPane <= MaxPanes
    /\ terminals' = terminals \cup {nextPane}
    /\ nextPane' = nextPane + 1
    /\ last' = Did("env")
    /\ UNCHANGED <<alive, clock, idle_src, timeout_id, peers, remote_proc,
                   remote_type, config, menu, nFed, tree, arg, out>>

\* a pane is closed: its shell and what runs in it are gone
ClosePane(p) ==
    /\ Running
    /\ p \in terminals
    /\ Cardinality(terminals) > 1
    /\ terminals' = terminals \ {p}
    /\ alive' = {pr \in alive : pr[1] # p}
    /\ last' = Did("env")
    /\ UNCHANGED <<nextPane, clock, idle_src, timeout_id, peers, remote_proc,
                   remote_type, config, menu, nFed, tree, arg, out>>

\* a process exits
ProcExit(pr) ==
    /\ Running
    /\ pr \in alive
    /\ alive' = alive \ {pr}
    /\ last' = Did("env")
    /\ UNCHANGED <<terminals, nextPane, clock, idle_src, timeout_id, peers,
                   remote_proc, remote_type, config, menu, nFed, tree,
                   arg, out>>

\* time passes; it is read only while the idle source is scheduled and
\* has not yet timed out
Tick ==
    /\ Running
    /\ idle_src # NoSource
    /\ Abs(clock - idle_src) <= PollTimeout
    /\ clock' = clock + 1
    /\ last' = Did("env")
    /\ UNCHANGED <<terminals, nextPane, alive, idle_src, timeout_id, peers,
                   remote_proc, remote_type, config, menu, nFed, tree,
                   arg, out>>

Next ==
    \/ \E t \in Panes : callback(t)
    \/ \E t \in Panes, sig \in {"split-auto", "split-horiz", "split-vert"} :
           _menu_item_activated(sig, t)
    \/ _poll_new_terminals
    \/ \E t \in Panes : _split_axis(t)
    \/ HostSplit
    \/ NewPane
    \/ \E p \in Panes : ClosePane(p)
    \/ \E pr \in Panes \X (1..MaxChildren) : ProcExit(pr)
    \/ Tick

Spec == Init /\ [][Next]_vars

(***************************************************************************)
(* The scanner over every list of descendants                              *)
(***************************************************************************)
\* the lists of at most MaxChildren descendants, of any of the processes
ChildLists ==
    UNION {[1..n -> 1..Len(Catalog)] : n \in 0..MaxChildren}

InitScan == Boot(ChildLists, {NoInput})

NextScan ==
    \/ \E t \in Panes : callback(t)
    \/ \E pr \in Panes \X (1..MaxChildren) : ProcExit(pr)

SpecScan == InitScan /\ [][NextScan]_vars

(***************************************************************************)
(* The variants' methods over command lines                                *)
(***************************************************************************)
\* tokens after the program's name
MaxArgs == 3

Programs == {s_ssh, s_docker, s_podman}

Tokens ==
    {s_run, s_exec, s_attach, s_name, s_it,
     <<"c">>,
     <<"-","p">>,
     <<"u","@","h">>,
     <<"a","@","b","@","c">>,
     <<"-","u">>,
     <<"-","-","s","i","g","-","p","r","o","x","y","=","f","a","l","s","e">>}

CommandLines ==
    {<<prog>> \o rest :
        prog \in Programs, rest \in UNION {[1..n -> Tokens] : n \in 0..MaxArgs}}

\* the process of a command line, as psutil reads it
ProcessOf(cmdline) ==
    [gone |-> FALSE, name |-> cmdline[1],
     exe |-> <<"/","b","i","n","/">> \o cmdline[1], cmdline |-> cmdline]

InitParse == Construct({<<>>}, {ProcessOf(c) : c \in CommandLines}, {<<>>})

\* "self.remote_type.GetHost(self.remote_proc)" of _apply_host_settings, on
\* a process the scanner returned with variant t; gone tells whether it has
\* exited since
CallGetHost(t) ==
    /\ IsType(t, arg) = Ret(TRUE)
    /\ \E gone \in BOOLEAN :
        out' = [fn |-> "GetHost", type |-> t, gone |-> gone,
                ret |-> GetHost(t, [arg EXCEPT !.gone = gone])]
    /\ UNCHANGED <<terminals, nextPane, alive, clock, idle_src, timeout_id,
                   peers, remote_proc, remote_type, config, menu, last,
                   nFed, tree, arg>>

\* "self.remote_type.Clone(self.remote_proc)" of _spawn_remote_session, on
\* a process the scanner returned with variant t
CallClone(t) ==
    /\ IsType(t, arg) = Ret(TRUE)
    /\ \E gone \in BOOLEAN :
        out' = [fn |-> "Clone", type |-> t, gone |-> gone,
                ret |-> Clone(t, [arg EXCEPT !.gone = gone])]
    /\ UNCHANGED <<terminals, nextPane, alive, clock, idle_src, timeout_id,
                   peers, remote_proc, remote_type, config, menu, last,
                   nFed, tree, arg>>

\* "remote_session.IsType(child)" of _has_remote_session, on any process
CallIsType(t) ==
    /\ \E gone \in BOOLEAN :
        out' = [fn |-> "IsType", type |-> t, gone |-> gone,
                ret |-> IsType(t, [arg EXCEPT !.gone = gone])]
    /\ UNCHANGED <<terminals, nextPane, alive, clock, idle_src, timeout_id,
                   peers, remote_proc, remote_type, config, menu, last,
                   nFed, tree, arg>>

NextParse ==
    \/ \E t \in DOMAIN remote_session_types : CallGetHost(t)
    \/ \E t \in DOMAIN remote_session_types : CallClone(t)
    \/ \E t \in DOMAIN remote_session_types : CallIsType(t)

SpecParse == InitParse /\ [][NextParse]_vars

(***************************************************************************)
(* The orchestrator's contract                                             *)
(***************************************************************************)
\* C1: a clone trigger that arrives while a request is pending is rejected
\* with no effect: the pending target (remote_proc, remote_type), the peer
\* snapshot, the poll start time and the scheduled poll are what they were,
\* the request is not counted as accepted and no split is asked of the host.
C1_ReentrancyGuard ==
    [][(timeout_id # 0 /\ last'.op = "activate")
        => /\ UNCHANGED <<remote_proc, remote_type, peers, idle_src, timeout_id,
                          nFed, terminals, nextPane>>
           /\ ~last'.accepted
           /\ ~last'.emitted
           /\ last'.resolved = <<>>]_vars

\* a trigger on a pane that still runs a remote session was turned down
\* because a request was pending
C1_Witness ==
    /\ last.op = "activate"
    /\ last.scan = "match"
    /\ ~last.accepted
    /\ timeout_id # 0

\* a poll tick, run while the request is pending and its time has not run out
PollInTime ==
    /\ last'.op = "poll"
    /\ idle_src # NoSource
    /\ timeout_id # 0
    /\ Abs(clock - idle_src) <= PollTimeout

\* C2: when a poll tick within the timeout sees exactly one pane that is not
\* in the snapshot, that pane is fed the Clone output of the pending target
\* joined by single spaces and followed by the line terminator, the profile
\* is resolved once, for that pane, and the orchestrator is Idle afterwards.
C2_SingleNewPane ==
    [][(PollInTime /\ Cardinality(terminals \ peers) = 1)
        => \E new \in terminals \ peers :
            \E cmd \in {Clone(remote_type, Proc(remote_proc, alive))} :
                /\ cmd.exc = "none"
                /\ last'.fedTo = new
                /\ last'.text = join(<<" ">>, cmd.val) \o linesep
                /\ last'.resolved = <<new>>
                /\ timeout_id' = 0]_vars

\* C3: a poll tick that sees a pane set of the size of the snapshot, when
\* more than the bound has passed since the request was accepted, makes the
\* orchestrator Idle, feeds nothing and is not rescheduled; when the bound
\* has not passed the request stays pending and the tick is rescheduled.
\* A tick feeds a pane only for the request that is pending, so a pane that
\* appears after the timeout gets nothing from it.
C3_Timeout ==
    [][(last'.op = "poll")
        => /\ Cardinality(terminals) = Cardinality(peers)
              => IF Abs(clock - idle_src) > PollTimeout
                 THEN /\ timeout_id' = 0
                      /\ idle_src' = NoSource
                      /\ last'.fedTo = 0
                      /\ ~last'.rescheduled
                 ELSE /\ timeout_id' = timeout_id
                      /\ timeout_id # 0
                      /\ idle_src' = idle_src
                      /\ last'.fedTo = 0
                      /\ last'.rescheduled
           /\ last'.fedTo # 0 => timeout_id # 0 /\ idle_src # NoSource]_vars

\* a request has timed out: the tick left the orchestrator Idle and fed no pane
C3_Witness ==
    /\ last.op = "poll"
    /\ last.exc = "none"
    /\ last.fedTo = 0
    /\ ~last.rescheduled
    /\ timeout_id = 0
    /\ idle_src = NoSource
    /\ Cardinality(terminals) = Cardinality(peers)

\* C4: the orchestrator is never left with a request pending and no poll
\* tick scheduled, so every accepted request comes back to Idle.
C4_NeverStuck ==
    timeout_id # 0 => idle_src # NoSource

\* C5: a poll tick that sees a pane set of another size than the snapshot
\* with no pane outside the snapshot makes the orchestrator Idle and feeds
\* nothing.
C5_Shrink ==
    [][(last'.op = "poll"
            /\ Cardinality(terminals) # Cardinality(peers)
            /\ terminals \ peers = {})
        => /\ timeout_id' = 0
           /\ last'.fedTo = 0]_vars

\* C6: a poll tick that sees more than one pane outside the snapshot feeds
\* the clone command to exactly one of them and makes the orchestrator Idle.
C6_SeveralNewPanes ==
    [][(last'.op = "poll" /\ Cardinality(terminals \ peers) > 1)
        => /\ last'.fedTo \in terminals \ peers
           /\ nFed' = nFed + 1
           /\ timeout_id' = 0]_vars

\* C7: a clone trigger in Idle whose scan returns no match does nothing:
\* no snapshot, no pending target, no split, no poll, no profile.
C7_Revalidation ==
    [][(last'.op = "activate" /\ last'.scan = "none" /\ timeout_id = 0)
        => /\ UNCHANGED <<peers, remote_proc, remote_type, timeout_id, idle_src,
                          nFed, terminals, nextPane>>
           /\ ~last'.accepted
           /\ ~last'.emitted
           /\ last'.resolved = <<>>
           /\ last'.profiles = <<>>]_vars

\* the remote session ended after the menu was built: the trigger, in Idle,
\* found no match
C7_Witness ==
    /\ last.op = "activate"
    /\ last.scan = "none"
    /\ timeout_id = 0
    /\ remote_type = 0
    /\ peers = {}

\* C8: the scanner does not raise to its caller, be it the menu callback,
\* the clone trigger or the auto-clone split handler: when a process has
\* vanished it returns none.
C8_ScannerNeverRaises ==
    last.op \in {"callback", "activate", "split_axis"} => last.scan # "raise"

\* the variants process pr, which is there, is one of
VariantsOf(pr) ==
    {t \in DOMAIN remote_session_types : IsType(t, Proc(pr, alive)).val}

C10_GetHostNeverRaises ==
    (out.fn = "GetHost" /\ ~out.gone) => out.ret.exc = "none"

\* C11: SSH GetHost skips the leading short options with their arguments
\* and takes the first token left as the target; the host is what follows
\* the first "@" of the target, whatever else the target holds, and the
\* whole target when it has no "@".
C11_SSHHost ==
    (out.fn = "GetHost" /\ ~out.gone
        /\ remote_session_types[out.type].cls = "SSHSession")
    => \E left \in {getopt(Tail(arg.cmdline))} :
        (left.exc = "none" /\ left.val # <<>>)
        => \E target \in {left.val[1]} :
            out.ret = Ret(IF HasChar(target, "@")
                          THEN From(target, Find(target, "@") + 1)
                          ELSE target)

\* a container variant's method was called on a process that is there
ContainerCall(fn) ==
    /\ out.fn = fn
    /\ ~out.gone
    /\ remote_session_types[out.type].cls = "ContainerSession"

\* the positions of the tokens of the command line that are in set
Positions(set) == {i \in 1..Len(arg.cmdline) : arg.cmdline[i] \in set}

\* the leftmost run, exec or attach of the command line
Subcommand == arg.cmdline[Min(Positions({s_run, s_exec, s_attach}))]

\* C12: container Clone returns the command line unchanged when the
\* subcommand is exec or attach; for run with a "--name" token followed by
\* a token X it returns [executable name, "exec", "-it", X, "sh"]; for run
\* without "--name", or with "--name" as the last token, GetHost is none
\* and the command line is returned unchanged.
C12_ContainerClone ==
    ContainerCall("Clone")
    => \E names \in {Positions({s_name})} :
        /\ Subcommand \in {s_exec, s_attach} => out.ret = Ret(arg.cmdline)
        /\ (Subcommand = s_run /\ names # {} /\ Min(names) < Len(arg.cmdline))
            => out.ret = Ret(<<remote_session_types[out.type].exe, s_exec, s_it,
                               arg.cmdline[Min(names) + 1], s_sh>>)
        /\ (Subcommand = s_run /\ (names = {} \/ Min(names) = Len(arg.cmdline)))
            => /\ GetHost(out.type, arg) = Ret(None)
               /\ out.ret = Ret(arg.cmdline)

\* "podman run --name c" is cloned as "podman exec -it c sh"
C12_Witness ==
    /\ ContainerCall("Clone")
    /\ arg.cmdline = <<s_podman, s_run, s_name, <<"c">> >>
    /\ out.ret = Ret(<<s_podman, s_exec, s_it, <<"c">>, s_sh>>)

(***************************************************************************)
(* The profile of a cloned pane, over hosts and [[Remote]] sections        *)
(***************************************************************************)
s_h == <<"h">>
s_x == <<"x">>

\* the hosts of the sessions: with an entry, without one, and named as a
\* setting of the plugin
HostNames == {s_h, <<"c">>, s_x, s_auto_clone, s_ssh_default_profile}

\* the [[Remote]] sections: those of UserConfigs, and one whose ssh default
\* is a name holding "profile", with a container default and an empty
\* per-host profile
ProfileConfigs ==
    UserConfigs \cup
    {(s_ssh_default_profile :> StrV(s_profile \o <<"1">>))
        @@ (s_container_default_profile :> StrV(<<"C">>))
        @@ (s_h :> DictV(s_profile :> <<>>))
        @@ (s_x :> DictV(s_profile :> <<"X">>))}

\* sessions to each host, and sessions GetHost finds no host of
HostSessions ==
    UNION {{<<s_ssh, hn>>, <<s_ssh, <<"u","@">> \o hn>>,
            <<s_docker, s_exec, hn>>, <<s_podman, s_run, s_name, hn>>}
           : hn \in HostNames}
    \cup {<<s_ssh>>, <<s_docker, s_run, <<"c">> >>}

InitProfile ==
    Construct({<<>>}, {ProcessOf(c) : c \in HostSessions}, ProfileConfigs)

\* "self._apply_host_settings(terminal)", with remote_proc a process the
\* scanner returned with variant t; gone tells whether it has exited since
CallApplyHostSettings(t) ==
    /\ IsType(t, arg) = Ret(TRUE)
    /\ \E gone \in BOOLEAN :
        out' = [fn |-> "_apply_host_settings", type |-> t, gone |-> gone,
                ret |-> host_settings(t, [arg EXCEPT !.gone = gone])]
    /\ UNCHANGED <<terminals, nextPane, alive, clock, idle_src, timeout_id,
                   peers, remote_proc, remote_type, config, menu, last,
                   nFed, tree, arg>>

NextProfile == \E t \in DOMAIN remote_session_types : CallApplyHostSettings(t)

SpecProfile == InitProfile /\ [][NextProfile]_vars

\* the default profile of the category of variant t
DefaultOf(t) ==
    config[IF remote_session_types[t].cls = "SSHSession"
           THEN s_ssh_default_profile ELSE s_container_default_profile].s

\* C13: the profile applied is the per-host "profile" entry when the host
\* is not none and the configuration has an entry for it with a "profile"
\* key, and the default of the category otherwise; no error is raised,
\* whatever the host string, a setting name of the plugin included.
C13_ResolveProfile ==
    (out.fn = "_apply_host_settings" /\ ~out.gone)
    => \E host \in {GetHost(out.type, arg)} :
        host.exc = "none"
        => out.ret =
            Ret(IF /\ host.val # None
                   /\ host.val \in DOMAIN config
                   /\ config[host.val].kind = "dict"
                   /\ s_profile \in DOMAIN config[host.val].d
                THEN config[host.val].d[s_profile]
                ELSE DefaultOf(out.type))

(***************************************************************************)
(* The name rule, over what psutil may report of a process                 *)
(***************************************************************************)
s_sshd == <<"s","s","h","d">>
s_SSH == <<"S","S","H">>
bin == <<"/","b","i","n","/">>

\* proc.name()
ReportedNames == {s_ssh, s_SSH, s_sshd, s_docker}
\* proc.exe(): empty when the executable cannot be read
ExePaths ==
    {<<>>, bin \o s_ssh, bin \o s_sshd, bin \o s_SSH, s_ssh,
     <<"/">> \o s_ssh \o <<"/","x">>, bin \o s_docker}
\* proc.cmdline(): empty for a zombie or a kernel thread
ReportedCmdlines ==
    {<<>>, <<s_ssh>>, <<bin \o s_ssh>>, <<s_sshd, s_ssh>>, <<s_SSH>>,
     <<s_docker, s_run>>}

InitNames ==
    Construct({<<>>},
              {[gone |-> FALSE, name |-> n, exe |-> e, cmdline |-> c] :
                  n \in ReportedNames, e \in ExePaths, c \in ReportedCmdlines},
              {<<>>})

\* "self.matches_by_name(proc)" of variant t's IsType
CallMatchesByName(t) ==
    /\ \E gone \in BOOLEAN :
        out' = [fn |-> "matches_by_name", type |-> t, gone |-> gone,
                ret |-> matches_by_name(remote_session_types[t].exe,
                                        [arg EXCEPT !.gone = gone])]
    /\ UNCHANGED <<terminals, nextPane, alive, clock, idle_src, timeout_id,
                   peers, remote_proc, remote_type, config, menu, last,
                   nFed, tree, arg>>

NextNames == \E t \in DOMAIN remote_session_types : CallMatchesByName(t)

SpecNames == InitNames /\ [][NextNames]_vars

\* path is name, or ends with "/" and name
IsFileNamed(path, name) ==
    \/ path = name
    \/ /\ Len(path) > Len(name)
       /\ SubSeq(path, Len(path) - Len(name), Len(path)) = <<"/">> \o name

\* C14: matches_by_name is true exactly when the reported name, the
\* basename of the executable path or the first element of the command
\* line equals the variant's executable name, letter case included, and
\* false otherwise, also with an empty path or an empty command line.
C14_NameRule ==
    (out.fn = "matches_by_name" /\ ~out.gone)
    => \E exe \in {remote_session_types[out.type].exe} :
        out.ret = Ret(\/ arg.name = exe
                      \/ IsFileNamed(arg.exe, exe)
                      \/ (arg.cmdline # <<>> /\ arg.cmdline[1] = exe))

\* a process with another reported name and no readable executable
\* matches on the first element of its command line
C14_Witness ==
    /\ out.fn = "matches_by_name" /\ ~out.gone
    /\ arg.name = s_sshd /\ arg.exe = <<>> /\ arg.cmdline = <<s_ssh>>
    /\ out.ret = Ret(TRUE)

\* the tokens after the leftmost run, exec or attach
AfterSubcommand ==
    From(arg.cmdline, Min(Positions({s_run, s_exec, s_attach})) + 1)

\* the first "--name" of the command line has a token after it
Named ==
    /\ Positions({s_name}) # {}
    /\ Min(Positions({s_name})) < Len(arg.cmdline)

\* C20: container IsType is true exactly when the name rule matches and
\* some token of the command line is run, exec or attach; GetHost and
\* Clone act on the leftmost such token of the whole command line, the
\* one IsType found.
C20_LeftmostSubcommand ==
    /\ ContainerCall("IsType")
        => \E exe \in {remote_session_types[out.type].exe} :
           out.ret = Ret(/\ \/ arg.name = exe
                            \/ IsFileNamed(arg.exe, exe)
                            \/ (arg.cmdline # <<>> /\ arg.cmdline[1] = exe)
                         /\ Positions({s_run, s_exec, s_attach}) # {})
    /\ ContainerCall("GetHost")
        => out.ret =
            IF Subcommand = s_exec
            THEN parse_known_args(exec_parser, AfterSubcommand)
            ELSE IF Subcommand = s_attach
            THEN parse_known_args(attach_parser, AfterSubcommand)
            ELSE IF Named
            THEN Ret(arg.cmdline[Min(Positions({s_name})) + 1])
            ELSE Ret(None)
    /\ ContainerCall("Clone")
        => (out.ret # Ret(arg.cmdline) <=> (Subcommand = s_run /\ Named))

\* "docker exec c run": the host is that of exec, the leftmost of the two
C20_Witness ==
    /\ ContainerCall("GetHost")
    /\ arg.cmdline = <<s_docker, s_exec, <<"c">>, s_run>>
    /\ out.ret = Ret(<<"c">>)

\* C15: with auto_clone, a host Split item activated on a menu built on a
\* pane with a remote session, and creating one new pane, makes _split_axis
\* inject the clone command of the pane's current remote session into the
\* new pane, once and without scheduling a poll; when the pane has no
\* remote session any more, nothing is injected.
C15_AutoClone ==
    [][(last'.op = "split_axis" /\ nextPane' = nextPane + 1)
       => \E has \in {(_has_remote_session(last.term, TRUE, NoProc))'} :
           IF has.exc = "none" /\ has.val.type # 0
           THEN /\ last'.fedTo = nextPane
                /\ last'.text =
                       join(<<" ">>, Clone(has.val.type,
                                           Proc(has.val.proc, alive')).val)
                           \o linesep
                /\ idle_src' = idle_src
           ELSE last'.fedTo = 0]_vars

\* C16: while a clone request is pending, no handler other than the poll
\* tick changes the pending target or the "before" snapshot: callback with
\* auto_clone and _split_axis leave remote_proc, remote_type and peers as
\* they are.
C16_OneActiveRequest ==
    [][(timeout_id # 0 /\ last'.op # "poll")
       => UNCHANGED <<remote_proc, remote_type, peers>>]_vars

\* C17: a poll tick within the timeout that sees exactly one pane outside
\* the "before" snapshot injects the command into that pane on that tick,
\* also when the pane set has the size of "before".
C17_OneNewPane ==
    [][(/\ last'.op = "poll"
        /\ Abs(clock - idle_src) <= PollTimeout
        /\ Cardinality(terminals \ peers) = 1)
       => last'.fedTo \in terminals \ peers]_vars

\* C18: an accepted trigger records the "before" snapshot and the pending
\* target, then issues exactly one split request, and polls only after it:
\* a pane made by that split is not in "before".
C18_SnapshotThenSplit ==
    [][(last'.op = "activate" /\ last'.accepted)
       => /\ last'.emitted
          /\ peers' = terminals
          /\ remote_proc' = last'.found.proc
          /\ remote_type' = last'.found.type
          /\ (terminals' \ terminals) \cap peers' = {}
          /\ idle_src' # NoSource]_vars

C21_OnlyNewPanes ==
    last.fedTo # 0
    => /\ last.op \in {"poll", "split_axis"}
       /\ last.fedTo \in terminals
       /\ last.fedTo \notin peers
       /\ last.fedTo # remote_proc[1]

\* _split_axis fed a new pane after a poll tick had fed another, with
\* panes in the snapshot that were left alone
C21_Witness ==
    /\ last.op = "split_axis"
    /\ last.fedTo \in terminals \ peers
    /\ nFed > 0
    /\ Cardinality(peers) > 1

(***************************************************************************)
(* The orchestrator on a pane whose session is to a host named as a        *)
(* setting                                                                 *)
(***************************************************************************)
SettingScenarios == {<<1, 9>>}      \* bash, ssh auto_clone

InitSettings == Boot(SettingScenarios, {NoInput})

SpecSettings == InitSettings /\ [][Next]_vars

\* C22: each accepted trigger leads to at most one injection by the poll
\* tick: after a tick injects, the poll is not rescheduled and no request
\* is pending, so the ticks never inject more often than triggers were
\* accepted.
C22_OneInjectionPerTrigger ==
    /\ nFed <= 1
    /\ (last.op = "poll" /\ last.fedTo # 0)
        => /\ ~last.rescheduled
           /\ idle_src = NoSource
           /\ timeout_id = 0

====
